---- MODULE Spec2Model ----
(***************************************************************************)
(* The MagicaVoxel .vox codec of zoxel (src/plugins/io_magicavoxel.py):    *)
(* MagicaVoxelFile.save and MagicaVoxelFile.load over a voxel grid and a   *)
(* disk of byte files.                                                     *)
(*                                                                         *)
(* A file is a sequence of bytes (0..255).  A 32-bit colour r<<24 | g<<16  *)
(* | b<<8 | a is held as the tuple <<r, g, b, a>> of its four bytes, most  *)
(* significant first, because 0xFFFFFFFF does not fit TLC's integers; the  *)
(* masks and shifts of the code become operations on that tuple.           *)
(***************************************************************************)
EXTENDS Integers, Sequences, FiniteSets, TLC

VARIABLES
    grid,      \* the application's voxel grid (api.get_voxel_data())
    disk,      \* file name -> bytes of the file
    pc,        \* "idle", or the position of the running load: "main", "loop"
    cur,       \* the operation that runs or ran last: [op, name]
    handle,    \* the file object f of that operation: "none", "open", "closed"
    pos,       \* read cursor of f
    left,      \* load's local `left`
    palette,   \* load's local `palette`: index -> colour
    outcome,   \* how the last operation ended: "none" (running), "ok", or the error
    calls,     \* history: the grid calls (resize, set) of the running/last load
    result,    \* history: file name -> [outcome, grid] of the last load of it
    savedFrom, \* history: file name -> the grid save wrote it from, or NoGrid
    ops,       \* number of operations started
    scenario   \* history: how Init chose the files "a" and "b"

vars == <<grid, disk, pc, cur, handle, pos, left, palette, outcome, calls,
          result, savedFrom, ops, scenario>>

(***************************************************************************)
(* Bounds of the model.                                                    *)
(***************************************************************************)
MaxOps == 2         \* operations (save, load) in one behaviour
MaxVoxels == 2      \* non-empty cells of an initial small grid
LeftFloor == 48     \* the chunk loop is followed while left >= -LeftFloor

(***************************************************************************)
(* Program constants.                                                      *)
(***************************************************************************)
PaletteSize == 256  \* slots of the RGBA chunk; save refuses idx >= 256
MaxDimension == 127 \* load refuses a dimension above 127
Version == 150      \* the version save writes

Min(a, b) == IF a < b THEN a ELSE b
Range(s) == {s[i] : i \in DOMAIN s}

\* ------------------------------------------------------------- bytes
\* The ASCII bytes of the tags.
VOX == <<86, 79, 88, 32>>
MAIN == <<77, 65, 73, 78>>
SIZE == <<83, 73, 90, 69>>
RGBA == <<82, 71, 66, 65>>
XYZI == <<88, 89, 90, 73>>
NOTE == <<78, 79, 84, 69>>

\* uint32(f, value): the four bytes written, least significant first.
uint32_write(value) ==
    << value % 256, (value \div 256) % 256,
       (value \div 65536) % 256, (value \div 16777216) % 256 >>

\* f.read(n) at cursor p: the bytes returned (fewer than n at end of file).
Read(f, p, n) == SubSeq(f, p + 1, Min(p + n, Len(f)))
\* the cursor after f.read(n)
Adv(f, p, n) == Min(p + n, Len(f))

\* uint32(f): 0 when fewer than four bytes are left.
uint32_read(f, p) ==
    LET x == Read(f, p, 4)
    IN  IF Len(x) = 4
        THEN x[1] + x[2] * 256 + x[3] * 65536 + x[4] * 16777216
        ELSE 0

\* ------------------------------------------------------------- colours
EMPTY == <<0, 0, 0, 0>>
SENTINEL == <<255, 255, 255, 255>>
\* vox & 0xffffff00
Mask(vox) == <<vox[1], vox[2], vox[3], 0>>

\* ------------------------------------------------------------- the grid
\* The voxel data behind api.get_voxel_data(): its dimensions and the
\* colours of its non-empty cells (a cell outside DOMAIN data is empty).
NoData == [c \in {} |-> EMPTY]
InBounds(g, x, y, z) ==
    /\ 0 <= x /\ x < g.width
    /\ 0 <= y /\ y < g.height
    /\ 0 <= z /\ z < g.depth

\* voxels.get(x, y, z): empty outside the grid.
Get(g, x, y, z) ==
    IF InBounds(g, x, y, z) /\ <<x, y, z>> \in DOMAIN g.data
    THEN g.data[<<x, y, z>>]
    ELSE EMPTY

\* voxels.set(x, y, z, color): ignored outside the grid.
SetVoxel(g, x, y, z, color) ==
    IF ~InBounds(g, x, y, z) THEN g
    ELSE [g EXCEPT !.data =
            [c \in (IF color = EMPTY THEN DOMAIN g.data \ {<<x, y, z>>}
                    ELSE DOMAIN g.data \cup {<<x, y, z>>}) |->
                IF c = <<x, y, z>> THEN color ELSE g.data[c]]]

\* voxels.resize(width, height, depth): a fresh, empty grid of that size.
Resize(g, width, height, depth) ==
    [width |-> width, height |-> height, depth |-> depth, data |-> NoData]

\* The non-empty cells of a grid as a set of <<x, y, z, colour>>.
Cells(g) == {<<c[1], c[2], c[3], g.data[c]>> : c \in DOMAIN g.data}

\* ------------------------------------------------------------- save
\* xrange(n) restricted to the values in S, in order.
Ascending(n, S) == SelectSeq([k \in 1..n |-> k - 1], LAMBDA v : v \in S)

RECURSIVE Concat(_)
Concat(ss) == IF ss = <<>> THEN <<>> ELSE Head(ss) \o Concat(Tail(ss))

\* Both passes run `for z in xrange(depth): for y in xrange(height): for x
\* in xrange(width)` and act only in the iterations that find a voxel.  An
\* iteration is the tuple <<x, y, z>> of its loop variables.  InLoopOrder
\* is the iterations `its` in the order the loops reach them: the z of
\* xrange(depth) that have one, for each the y of xrange(height), for each
\* the x of xrange(width).
LoopRow(g, its, y, z) ==
    LET xs == Ascending(g.width, {it[1] : it \in {o \in its : o[2] = y /\ o[3] = z}})
    IN  [k \in DOMAIN xs |-> <<xs[k], y, z>>]
LoopPlane(g, its, z) ==
    LET ys == Ascending(g.height, {it[2] : it \in {o \in its : o[3] = z}})
    IN  Concat([k \in DOMAIN ys |-> LoopRow(g, its, ys[k], z)])
InLoopOrder(g, its) ==
    LET zs == Ascending(g.depth, {it[3] : it \in its})
    IN  Concat([k \in DOMAIN zs |-> LoopPlane(g, its, zs[k])])

\* The cells that hold a voxel.
Populated(g) == {c \in DOMAIN g.data : InBounds(g, c[1], c[2], c[3])}

\* First pass, lines 67-77: the iterations whose voxels.get(x, y, z) is a
\* voxel, and those voxels in loop order.
FirstHits(g) == Populated(g)
FirstPass(g) ==
    LET its == InLoopOrder(g, FirstHits(g))
    IN  [k \in DOMAIN its |-> Get(g, its[k][1], its[k][2], its[k][3])]

voxel_count(g) == Len(FirstPass(g))

\* `color in palette.keys()` (line 73): palette is keyed by slot index, so
\* the test asks whether the masked colour, as an integer, is one of the
\* indices 0..idx-1 assigned so far.
InPaletteKeys(color, idx) ==
    color[1] = 0 /\ color[2] * 65536 + color[3] * 256 + color[4] < idx

NoMap == [c \in {} |-> 0]

\* Lines 71-77 for one voxel of the first pass, from the scan state st:
\* st.palette: slot idx (from 0) is element idx + 1, so idx = Len(st.palette);
\* st.paletteMap: masked colour -> index (a later assignment to the same
\* colour replaces the earlier one).
ScanVoxel(vox, st) ==
    LET color == Mask(vox)
        idx == Len(st.palette)
    IN  IF ~InPaletteKeys(color, idx)
        THEN [palette |-> Append(st.palette, color),
              paletteMap |-> (color :> idx) @@ st.paletteMap]
        ELSE st

\* The voxels lo..hi of the first pass in order.  The range is split in
\* halves and st is looked at before anything else, which keeps TLC's
\* evaluation shallow and changes no result.
RECURSIVE ScanPalette(_, _, _, _)
ScanPalette(voxs, lo, hi, st) ==
    IF lo > hi \/ Len(st.palette) < 0 THEN st
    ELSE IF lo = hi THEN ScanVoxel(voxs[lo], st)
    ELSE LET mid == (lo + hi) \div 2
         IN  ScanPalette(voxs, mid + 1, hi, ScanPalette(voxs, lo, mid, st))

SaveScan(g) ==
    ScanPalette(FirstPass(g), 1, voxel_count(g),
                [palette |-> <<>>, paletteMap |-> NoMap])

\* Lines 140-143: paletteMap[vox & 0xffffff00], or 0 when it has no entry.
PaletteIndex(paletteMap, color) ==
    IF color \in DOMAIN paletteMap THEN paletteMap[color] ELSE 0

\* line 80
PaletteOverflow(idx) == idx >= PaletteSize

\* Concatenation of a sequence of 4-byte tuples.
Flatten4(recs) ==
    [k \in 1..(4 * Len(recs)) |-> recs[((k - 1) \div 4) + 1][((k - 1) % 4) + 1]]

\* Lines 114-123: slot i of the RGBA chunk (`i in palette.keys()` is i < idx).
PaletteEntry(pal, i) ==
    IF i + 1 \in DOMAIN pal
    THEN <<pal[i + 1][1], pal[i + 1][2], pal[i + 1][3], 255>>
    ELSE <<255, 255, 255, 255>>

PaletteBytes(pal) == Flatten4([k \in 1..PaletteSize |-> PaletteEntry(pal, k - 1)])

\* Second pass, lines 131-148: the iteration <<x, y, z>> reads
\* voxels.get(x, z, y); the iterations that find a voxel there are the
\* populated cells <<x, z, y>> with y in xrange(height), z in xrange(depth).
SecondHits(g) ==
    {<<c[1], c[3], c[2]>> : c \in {p \in Populated(g) : p[3] < g.height /\ p[2] < g.depth}}

\* The bytes [x, y, z, cidx] those iterations write, in loop order.
SecondPass(g, paletteMap) ==
    LET its == InLoopOrder(g, SecondHits(g))
    IN  [k \in DOMAIN its |->
            <<its[k][1], its[k][2], its[k][3],
              PaletteIndex(paletteMap, Mask(Get(g, its[k][1], its[k][3], its[k][2])))>>]

\* Lines 86-89.
chunk_size == 16 + 4 * 3
chunk_rgba == 16 + 4 * PaletteSize
chunk_voxel(g) == 16 + 4 + voxel_count(g) * 4
chunk_main(g) == 16 + chunk_size + chunk_rgba + chunk_voxel(g)

\* Lines 93-148: everything written between open and close.
SaveBytes(g) ==
    LET scan == SaveScan(g)
    IN  VOX \o uint32_write(Version)
        \o MAIN \o uint32_write(0) \o uint32_write(chunk_main(g))
        \o SIZE \o uint32_write(4 * 3) \o uint32_write(0)
        \o uint32_write(g.width) \o uint32_write(g.height) \o uint32_write(g.depth)
        \o RGBA \o uint32_write(4 * PaletteSize) \o uint32_write(0)
        \o PaletteBytes(scan.palette)
        \o XYZI \o uint32_write(4 + voxel_count(g) * 4) \o uint32_write(0)
        \o uint32_write(voxel_count(g))
        \o Flatten4(SecondPass(g, scan.paletteMap))

\* the file opened (and so emptied) before the palette check
SaveRunOpenFirst(g, old) ==
    IF PaletteOverflow(Len(SaveScan(g).palette))
    THEN [outcome |-> "capacity", handle |-> "open", bytes |-> <<>>]
    ELSE [outcome |-> "ok", handle |-> "closed", bytes |-> SaveBytes(g)]

\* save(filename) as a whole: how it ends, the state of the file object it
\* opened (none when it raised before open), and the file's bytes after it.
SaveRun(g, old) ==
    IF PaletteOverflow(Len(SaveScan(g).palette))
    THEN [outcome |-> "capacity", handle |-> "none", bytes |-> old]
    ELSE [outcome |-> "ok", handle |-> "closed", bytes |-> SaveBytes(g)]

\* ------------------------------------------------------------- load
NoPalette == [i \in {} |-> EMPTY]

\* a check of the length only
MagicLengthOnly(magic) == Len(magic) = 4

\* line 163
MagicOk(magic) == magic = VOX

\* the limit taken one too low
TooLargeFrom127(width, height, depth) ==
    width >= MaxDimension \/ height >= MaxDimension \/ depth >= MaxDimension

\* line 186
TooLarge(width, height, depth) ==
    width > MaxDimension \/ height > MaxDimension \/ depth > MaxDimension

\* line 196: b[0] << 24 | b[1] << 16 | b[2] << 8 | b[3], as a colour tuple
\* (most significant byte first).
Pack(b) == <<b[1], b[2], b[3], b[4]>>

\* an unresolved index left as the empty colour
ResolveOrEmpty(pal, index) == IF index \in DOMAIN pal THEN pal[index] ELSE EMPTY

\* lines 205-207
Resolve(pal, index) == IF index \in DOMAIN pal THEN pal[index] ELSE SENTINEL

\* line 209: the call voxels.set(b[0], b[2], b[1], color) of one record.
SetCall(b, pal) ==
    [fn |-> "set", x |-> b[1], y |-> b[3], z |-> b[2], color |-> Resolve(pal, b[4])]
ResizeCall(width, height, depth) ==
    [fn |-> "resize", width |-> width, height |-> height, depth |-> depth]

\* The grid after the set calls of the n complete records at cursor p.
RECURSIVE ApplyRecords(_, _, _, _, _)
ApplyRecords(g, f, p, n, pal) ==
    IF n = 0 THEN g
    ELSE LET c == SetCall(Read(f, p, 4), pal)
         IN  ApplyRecords(SetVoxel(g, c.x, c.y, c.z, c.color), f, p + 4, n - 1, pal)

\* the payload of an unknown chunk not read
SkipUnknownMissing(f, p, content_size, child_size) == p

\* line 213: the cursor after f.read(content_size + child_size)
SkipUnknown(f, p, content_size, child_size) == Adv(f, p, content_size + child_size)

\* line 215
NextLeft(l, content_size, child_size) == l - content_size + child_size

\* The three reads of a chunk header (lines 174-176) at cursor p.
Header(f, p) ==
    [cid |-> Read(f, p, 4),
     content_size |-> uint32_read(f, Adv(f, p, 4)),
     child_size |-> uint32_read(f, Adv(f, Adv(f, p, 4), 4)),
     pos |-> Adv(f, Adv(f, Adv(f, p, 4), 4), 4)]

\* Lines 180-189: the SIZE branch.
SizeBranch(f, h, st) ==
    LET width == uint32_read(f, h.pos)
        height == uint32_read(f, Adv(f, h.pos, 4))
        depth == uint32_read(f, Adv(f, Adv(f, h.pos, 4), 4))
        p == Adv(f, Adv(f, Adv(f, h.pos, 4), 4), 4)
    IN  IF TooLarge(width, height, depth)
        THEN [st EXCEPT !.pos = p, !.err = "capacity"]
        ELSE [st EXCEPT !.pos = p,
                        !.grid = Resize(st.grid, width, height, depth),
                        !.calls = Append(st.calls, ResizeCall(width, height, depth))]

\* Lines 191-196: the RGBA branch.  An entry read short of four bytes
\* raises IndexError at b[..]; the entries before it are in the table.
RgbaBranch(f, h, st) ==
    LET n == Min(PaletteSize, (Len(f) - h.pos) \div 4)
        pal == [i \in (DOMAIN st.palette) \cup (0..(n - 1)) |->
                   IF i < n THEN Pack(Read(f, h.pos + 4 * i, 4)) ELSE st.palette[i]]
    IN  IF n < PaletteSize
        THEN [st EXCEPT !.pos = Adv(f, h.pos, 4 * (n + 1)), !.palette = pal,
                        !.err = "index"]
        ELSE [st EXCEPT !.pos = h.pos + 4 * n, !.palette = pal]

\* Lines 198-209: the XYZI branch.  A record read short of four bytes
\* raises IndexError at b[3]; the records before it have been set.
XyziBranch(f, h, st) ==
    LET voxel_count_read == uint32_read(f, h.pos)
        p == Adv(f, h.pos, 4)
        n == Min(voxel_count_read, (Len(f) - p) \div 4)
        g == ApplyRecords(st.grid, f, p, n, st.palette)
        cs == st.calls \o [k \in 1..n |-> SetCall(Read(f, p + 4 * (k - 1), 4), st.palette)]
    IN  IF n < voxel_count_read
        THEN [st EXCEPT !.pos = Adv(f, p, 4 * (n + 1)), !.grid = g, !.calls = cs,
                        !.err = "index"]
        ELSE [st EXCEPT !.pos = p + 4 * n, !.grid = g, !.calls = cs]

\* Lines 211-213.
UnknownBranch(f, h, st) ==
    [st EXCEPT !.pos = SkipUnknown(f, h.pos, h.content_size, h.child_size)]

\* One iteration of the chunk loop, lines 174-215, from the frame st =
\* [pos, left, palette, grid, calls, err]; err # "none" when it raised.
ChunkStep(f, st) ==
    LET h == Header(f, st.pos)
        s1 == [st EXCEPT !.left = st.left - 16]
        s2 == IF h.cid = SIZE THEN SizeBranch(f, h, s1)
              ELSE IF h.cid = RGBA THEN RgbaBranch(f, h, s1)
              ELSE IF h.cid = XYZI THEN XyziBranch(f, h, s1)
              ELSE UnknownBranch(f, h, s1)
    IN  IF s2.err # "none" THEN s2
        ELSE [s2 EXCEPT !.left = NextLeft(s1.left, h.content_size, h.child_size)]

Frame == [pos |-> pos, left |-> left, palette |-> palette, grid |-> grid,
          calls |-> calls, err |-> "none"]

\* ------------------------------------------------------------- inputs
Names == {"a", "b", "out"}
\* the file names the user saves to; "a" and "b" hold the given files
SaveNames == {"out"}

\* A chunk as the format lays it out: tag, content length, children
\* length, payload.
Chunk(tag, content_size, child_size, payload) ==
    tag \o uint32_write(content_size) \o uint32_write(child_size) \o payload

SizeChunk(dims) ==
    Chunk(SIZE, 12, 0,
          uint32_write(dims[1]) \o uint32_write(dims[2]) \o uint32_write(dims[3]))

\* A palette whose every slot, slot 255 included, holds a colour of its
\* own that is not the sentinel.
FilePaletteEntry(i) == <<i, 255 - i, 7, 255>>
RgbaChunk ==
    Chunk(RGBA, 4 * PaletteSize, 0,
          Flatten4([k \in 1..PaletteSize |-> FilePaletteEntry(k - 1)]))

XyziChunk(recs) ==
    Chunk(XYZI, 4 + 4 * Len(recs), 0, uint32_write(Len(recs)) \o Flatten4(recs))

\* A chunk of a tag load does not know, with n payload bytes.
NoteChunk(n) == Chunk(NOTE, n, 0, [k \in 1..n |-> 88])

\* A chunk of a tag load does not know that declares n bytes of content
\* and c bytes of children, the children being one chunk of the same kind
\* (12 bytes of header, c - 12 of content).
NestChunk(n, c) == Chunk(NOTE, n, c, [k \in 1..n |-> 88] \o NoteChunk(c - 12))

\* A file of the given chunks whose root chunk declares children_size.
Container(magic, children_size, chunks) ==
    magic \o uint32_write(Version)
    \o MAIN \o uint32_write(0) \o uint32_write(children_size) \o chunks

\* What the chunk loop takes off `left` for these chunks: 16 and the
\* content length for each (lines 177 and 215), were the children length
\* counted like the content length.
RECURSIVE WalkSize(_)
WalkSize(cs) == IF cs = <<>> THEN 0 ELSE (Len(Head(cs)) - 12) + 16 + WalkSize(Tail(cs))

\* The root children length of a file of the chunks cs:
\*   "walk"  what the chunk loop takes off for them, so that it ends after
\*           the last chunk;
\*   "saver" 16 more, as save writes it (chunk_main, line 89);
\*   "bytes" the number of bytes of the chunks.
RootSize(root, cs) ==
    CASE root = "walk" -> WalkSize(cs)
      [] root = "saver" -> 16 + WalkSize(cs)
      [] OTHER -> Len(Concat(cs))

File(magic, root, cs) == Container(magic, RootSize(root, cs), Concat(cs))

FileDims ==
    { <<2, 2, 2>>, <<4, 6, 10>>, <<127, 127, 127>>,
      <<128, 127, 127>>, <<127, 128, 127>>, <<127, 127, 128>> }
\* voxel records as file bytes (x, z, y, palette index)
FileRecords ==
    { <<>>,
      << <<3, 9, 5, 1>> >>,
      << <<1, 0, 1, 255>>, <<0, 1, 0, 2>> >>,
      << <<0, 0, 0, 0>>, <<126, 125, 124, 3>>, <<0, 0, 0, 9>> >> }
NoteLengths == {0, 1, 5}
\* children lengths of an unknown chunk
ChildLengths == {12, 16, 20}

\* The files "a" and "b" of a scenario s = [kind, root, dims, recs, n]:
\*   "note"   b is a with an unknown chunk of n payload bytes between the
\*            SIZE and the RGBA chunk;
\*   "order"  b is a with the RGBA and XYZI chunks exchanged;
\*   "magic"  a does not start with "VOX ", b is the first n bytes of it;
\*   "plain"  no RGBA chunk; b has no SIZE chunk either;
\*   "child"  b is a with an unknown chunk between the SIZE and the RGBA
\*            chunk that has 2 bytes of content and n bytes of children.
FileA(s) ==
    CASE s.kind \in {"note", "order", "child"} ->
            File(VOX, s.root, <<SizeChunk(s.dims), RgbaChunk, XyziChunk(s.recs)>>)
      [] s.kind = "magic" ->
            File(<<86, 79, 88, 88>>, s.root, <<SizeChunk(s.dims), XyziChunk(s.recs)>>)
      [] OTHER ->
            File(VOX, s.root, <<SizeChunk(s.dims), XyziChunk(s.recs)>>)
FileB(s) ==
    CASE s.kind = "note" ->
            File(VOX, s.root,
                 <<SizeChunk(s.dims), NoteChunk(s.n), RgbaChunk, XyziChunk(s.recs)>>)
      [] s.kind = "order" ->
            File(VOX, s.root, <<SizeChunk(s.dims), XyziChunk(s.recs), RgbaChunk>>)
      [] s.kind = "magic" -> SubSeq(VOX, 1, s.n)
      [] s.kind = "child" ->
            File(VOX, s.root,
                 <<SizeChunk(s.dims), NestChunk(2, s.n), RgbaChunk, XyziChunk(s.recs)>>)
      [] OTHER ->
            File(VOX, s.root, <<XyziChunk(s.recs)>>)

Roots == {"walk", "saver", "bytes"}
Scenarios ==
    [kind : {"note"}, root : Roots, dims : FileDims, recs : FileRecords, n : NoteLengths]
    \cup [kind : {"order", "plain"}, root : Roots, dims : FileDims, recs : FileRecords,
          n : {0}]
    \cup [kind : {"magic"}, root : {"walk"}, dims : {<<2, 2, 2>>}, recs : FileRecords,
          n : {0, 2, 3}]
    \cup [kind : {"child"}, root : Roots, dims : {<<2, 2, 2>>}, recs : FileRecords,
          n : ChildLengths]
DefaultScenario ==
    [kind |-> "plain", root |-> "walk", dims |-> <<2, 2, 2>>,
     recs |-> << <<1, 0, 1, 255>>, <<0, 1, 0, 2>> >>, n |-> 0]

\* What is in the file "out" before anything is saved.
ExistingFile == <<1, 2, 3>>

\* The small grids: a shape, and colours in at most MaxVoxels of the
\* probe cells that lie in it.
Shapes ==
    { <<1, 1, 1>>, <<2, 1, 1>>, <<1, 1, 2>>, <<2, 2, 2>>, <<4, 6, 10>> }
Probes == { <<0, 0, 0>>, <<1, 0, 0>>, <<0, 0, 1>>, <<1, 1, 1>>, <<3, 5, 9>> }
\* 0x10203000, a colour that is zero once masked, and a colour with
\* another low byte
Colors == { <<16, 32, 48, 0>>, <<0, 0, 0, 255>>, <<1, 2, 3, 128>> }

ProbesIn(shape) ==
    {c \in Probes : c[1] < shape[1] /\ c[2] < shape[2] /\ c[3] < shape[3]}
SmallGrids ==
    UNION { UNION { { [width |-> sh[1], height |-> sh[2], depth |-> sh[3], data |-> d]
                      : d \in [cs -> Colors] }
                    : cs \in {c \in SUBSET ProbesIn(sh) : Cardinality(c) <= MaxVoxels} }
            : sh \in Shapes }

\* A row of n cells over m colours: cell x holds colour x % m, and the m
\* colours differ in their three high bytes.
SpectrumColor(i) == <<i \div 16, i % 16, 1, i % 3>>
SpectrumGrid(n, m) ==
    [width |-> n, height |-> 1, depth |-> 1,
     data |-> [c \in {<<x, 0, 0>> : x \in 0..(n - 1)} |-> SpectrumColor(c[1] % m)]]
SpectrumGrids ==
    {SpectrumGrid(n, m) : n \in (PaletteSize - 2)..(PaletteSize + 1),
                          m \in {1, PaletteSize - 1, PaletteSize + 1}}

DefaultGrid ==
    [width |-> 2, height |-> 2, depth |-> 2,
     data |-> [c \in {<<1, 1, 1>>} |-> <<16, 32, 48, 0>>]]

NoGrid == [width |-> 0, height |-> 0, depth |-> 0, data |-> NoData]
NoResult == [outcome |-> "none", grid |-> NoGrid]

\* ------------------------------------------------------------- behaviour
Init ==
    /\ \/ grid \in SmallGrids \cup SpectrumGrids /\ scenario = DefaultScenario
       \/ grid = DefaultGrid /\ scenario \in Scenarios
    /\ disk = [n \in Names |->
                 IF n = "a" THEN FileA(scenario)
                 ELSE IF n = "b" THEN FileB(scenario) ELSE ExistingFile]
    /\ pc = "idle"
    /\ cur = [op |-> "none", name |-> "none"]
    /\ handle = "none"
    /\ pos = 0
    /\ left = 0
    /\ palette = NoPalette
    /\ outcome = "none"
    /\ calls = <<>>
    /\ result = [n \in Names |-> NoResult]
    /\ savedFrom = [n \in SaveNames |-> NoGrid]
    /\ ops = 0

\* save(filename), lines 57-151.
Save(name) ==
    /\ pc = "idle"
    /\ ops < MaxOps
    /\ LET r == SaveRun(grid, disk[name])
       IN  /\ disk' = [disk EXCEPT ![name] = r.bytes]
           /\ handle' = r.handle
           /\ outcome' = r.outcome
           /\ savedFrom' = [savedFrom EXCEPT ![name] = IF r.outcome = "ok" THEN grid ELSE @]
    /\ cur' = [op |-> "save", name |-> name]
    /\ ops' = ops + 1
    /\ UNCHANGED <<grid, pc, pos, left, palette, calls, result, scenario>>

\* load(filename), lines 155-164: open, read magic and version, check.
LoadBegin(name) ==
    /\ pc = "idle"
    /\ ops < MaxOps
    /\ cur' = [op |-> "load", name |-> name]
    /\ ops' = ops + 1
    /\ handle' = "open"
    /\ palette' = NoPalette
    /\ calls' = <<>>
    /\ left' = 0
    /\ pos' = Adv(disk[name], Adv(disk[name], 0, 4), 4)
    /\ IF MagicOk(Read(disk[name], 0, 4))
       THEN /\ pc' = "main"
            /\ outcome' = "none"
            /\ result' = [result EXCEPT ![name] = NoResult]
       ELSE /\ pc' = "idle"
            /\ outcome' = "format"
            /\ result' = [result EXCEPT ![name] = [outcome |-> "format", grid |-> grid]]
    /\ UNCHANGED <<grid, disk, savedFrom, scenario>>

\* Lines 167-172: the root chunk header.
LoadMain ==
    /\ pc = "main"
    /\ LET h == Header(disk[cur.name], pos)
       IN  /\ pos' = h.pos
           /\ left' = h.content_size + h.child_size
    /\ pc' = "loop"
    /\ UNCHANGED <<grid, disk, cur, handle, palette, outcome, calls, result,
                   savedFrom, ops, scenario>>

\* Lines 173-215: one iteration of `while left`.
LoadChunk ==
    /\ pc = "loop"
    /\ left # 0
    /\ left >= -LeftFloor
    /\ LET st == ChunkStep(disk[cur.name], Frame)
       IN  /\ pos' = st.pos
           /\ left' = st.left
           /\ palette' = st.palette
           /\ grid' = st.grid
           /\ calls' = st.calls
           /\ IF st.err = "none"
              THEN UNCHANGED <<pc, outcome, result>>
              ELSE /\ pc' = "idle"
                   /\ outcome' = st.err
                   /\ result' = [result EXCEPT ![cur.name] =
                                    [outcome |-> st.err, grid |-> st.grid]]
    /\ UNCHANGED <<disk, cur, handle, savedFrom, ops, scenario>>

\* Line 217, reached when the loop ends.
LoadEnd ==
    /\ pc = "loop"
    /\ left = 0
    /\ handle' = "closed"
    /\ pc' = "idle"
    /\ outcome' = "ok"
    /\ result' = [result EXCEPT ![cur.name] = [outcome |-> "ok", grid |-> grid]]
    /\ UNCHANGED <<grid, disk, cur, pos, left, palette, calls, savedFrom, ops, scenario>>

Next ==
    \/ \E name \in SaveNames : Save(name)
    \/ \E name \in Names : LoadBegin(name)
    \/ LoadMain
    \/ LoadChunk
    \/ LoadEnd

Spec == Init /\ [][Next]_vars

\* ------------------------------------------------------------- claims
\* A masked colour with the low byte 0xFF.
Opaque(color) == <<color[1], color[2], color[3], 255>>
DistinctColors(g) == {Mask(g.data[c]) : c \in DOMAIN g.data}

\* The last operation was op on the file n and has ended.
Ended(op, n) == pc = "idle" /\ cur = [op |-> op, name |-> n]

\* Places in a file written by save: the header is 8 bytes and every chunk
\* header 12 (tag and two lengths).
MainAt == 4 + 4
SizeAt == MainAt + 12
RgbaAt == SizeAt + 12 + 12
XyziAt == RgbaAt + 12 + 4 * PaletteSize
RecordsAt == XyziAt + 12 + 4
SavedSlot(f, i) == Read(f, RgbaAt + 12 + 4 * i, 4)
SavedRecordCount(f) == (Len(f) - RecordsAt) \div 4
SavedRecord(f, k) == Read(f, RecordsAt + 4 * (k - 1), 4)

\* C1: round trip.  When load of a file ends that save wrote from a grid
\* of dimensions at most 127 with at most 254 distinct masked colours, it
\* has ended without an error and the grid's non-empty cells are those of
\* the saved grid, each colour masked and carrying 0xFF in its low byte.
C1_RoundTrip ==
    \A n \in SaveNames :
        ( /\ Ended("load", n)
          /\ savedFrom[n] # NoGrid
          /\ savedFrom[n].width <= 127
          /\ savedFrom[n].height <= 127
          /\ savedFrom[n].depth <= 127
          /\ Cardinality(DistinctColors(savedFrom[n])) <= 254 )
        => /\ outcome = "ok"
           /\ Cells(grid) =
                {<<c[1], c[2], c[3], Opaque(Mask(c[4]))>> : c \in Cells(savedFrom[n])}

\* C2: palette capacity boundary.  A save of a grid with exactly 255
\* distinct masked colours succeeds, the slots 0..254 of the written RGBA
\* chunk hold these 255 colours and slot 255 holds the sentinel; a save of
\* a grid with 256 or more distinct masked colours fails with the capacity
\* error.
C2_PaletteCapacity ==
    \A n \in SaveNames :
        Ended("save", n) =>
            /\ Cardinality(DistinctColors(grid)) = 255 =>
                 /\ outcome = "ok"
                 /\ {SavedSlot(disk[n], i) : i \in 0..254}
                       = {Opaque(c) : c \in DistinctColors(grid)}
                 /\ SavedSlot(disk[n], 255) = <<255, 255, 255, 255>>
            /\ Cardinality(DistinctColors(grid)) >= 256 => outcome = "capacity"

\* C5: axis swap.  After a save, every non-empty cell (x, y, z) of the
\* grid has exactly one record in the file, with the coordinate bytes
\* (x, z, y) and the index of the palette slot that holds the cell's
\* colour; and a load that ended without error has called set at (a, c, b)
\* for every record (a, b, c, i) of the file, in order.
C5_SaveRecords(n) ==
    \A c \in DOMAIN grid.data :
        LET ks == {k \in 1..SavedRecordCount(disk[n]) :
                      SubSeq(SavedRecord(disk[n], k), 1, 3) = <<c[1], c[3], c[2]>>}
        IN  /\ Cardinality(ks) = 1
            /\ \A k \in ks :
                  SavedSlot(disk[n], SavedRecord(disk[n], k)[4]) = Opaque(Mask(grid.data[c]))
C5_LoadCells ==
    LET sets == SelectSeq(calls, LAMBDA c : c.fn = "set")
    IN  /\ Len(sets) = Len(scenario.recs)
        /\ \A k \in DOMAIN sets :
              <<sets[k].x, sets[k].y, sets[k].z>>
                 = <<scenario.recs[k][1], scenario.recs[k][3], scenario.recs[k][2]>>
C5_AxisSwap ==
    /\ \A n \in SaveNames : (Ended("save", n) /\ outcome = "ok") => C5_SaveRecords(n)
    /\ \A n \in {"a", "b"} :
          (Ended("load", n) /\ outcome = "ok" /\ scenario.kind # "magic") => C5_LoadCells

\* C6: file handle release.  When save or load has returned or raised,
\* the file object the call opened is not open.
C6_HandleReleased ==
    (pc = "idle" /\ cur.op # "none") => handle # "open"

\* C7: root chunk length.  In a file save wrote, the MAIN chunk has
\* content length 0 and its children length is the sum of the sizes of
\* the three chunks after it, 16 bytes of header and the payload each,
\* which is the number of bytes after the MAIN header.
C7_RootLength ==
    \A n \in SaveNames :
        (Ended("save", n) /\ outcome = "ok") =>
            /\ uint32_read(disk[n], MainAt + 4) = 0
            /\ uint32_read(disk[n], MainAt + 8)
                  = (16 + 12) + (16 + 4 * PaletteSize)
                    + (16 + 4 + 4 * SavedRecordCount(disk[n]))
            /\ uint32_read(disk[n], MainAt + 8) = Len(disk[n]) - SizeAt

\* The chunk loop is about to process the chunk whose header is at the
\* cursor.
AtChunk == pc = "loop" /\ left # 0
CurFile == disk[cur.name]

\* C3: unknown chunk tolerance.  For files a and b, b being a with a chunk
\* of an unknown tag (children length 0, root children length raised by
\* what the walk takes off for it) between the SIZE and the RGBA chunk:
\* the loads of a and b end the same way, with the same grid when they
\* end without error, and once a has loaded without error the load of b
\* neither fails nor overruns the root's budget; and a step of the chunk
\* loop at a chunk of an unknown tag leaves the grid alone and calls
\* neither resize nor set.
C3_SameResult ==
    ( /\ scenario.kind = "note"
      /\ result["a"].outcome # "none"
      /\ result["b"].outcome # "none" )
    => /\ result["a"].outcome = result["b"].outcome
       /\ result["a"].outcome = "ok" => result["a"].grid = result["b"].grid
C3_Completes ==
    ( /\ scenario.kind = "note"
      /\ result["a"].outcome = "ok"
      /\ cur = [op |-> "load", name |-> "b"] )
    => outcome \in {"none", "ok"} /\ left >= 0
C3_UnknownStep ==
    (AtChunk /\ Header(CurFile, pos).cid \notin {SIZE, RGBA, XYZI})
    => grid' = grid /\ calls' = calls
C3_UnknownChunkTolerance ==
    [](C3_SameResult /\ C3_Completes) /\ [][C3_UnknownStep]_vars
C3_Witness ==
    /\ scenario.kind = "note"
    /\ scenario.n = 5
    /\ result["a"].outcome = "ok"
    /\ result["b"].outcome = "ok"
    /\ Cells(result["b"].grid) # {}

\* C4: dimension boundary.  A step of the chunk loop at a SIZE chunk
\* raises the capacity error, with no call on the grid, exactly when the
\* declared width, height or depth is above 127; otherwise it calls
\* resize with the three declared values, the grid has exactly these
\* dimensions, and the loop goes on.
C4_Step ==
    LET h == Header(CurFile, pos)
        width == uint32_read(CurFile, h.pos)
        height == uint32_read(CurFile, Adv(CurFile, h.pos, 4))
        depth == uint32_read(CurFile, Adv(CurFile, h.pos, 8))
    IN  (AtChunk /\ h.cid = <<83, 73, 90, 69>>)
        => IF width > 127 \/ height > 127 \/ depth > 127
           THEN /\ pc' = "idle"
                /\ outcome' = "capacity"
                /\ calls' = calls
                /\ grid' = grid
           ELSE /\ pc' = "loop"
                /\ outcome' = "none"
                /\ calls' = Append(calls, [fn |-> "resize", width |-> width,
                                           height |-> height, depth |-> depth])
                /\ grid'.width = width
                /\ grid'.height = height
                /\ grid'.depth = depth
C4_DimensionBoundary == [][C4_Step]_vars
C4_Witness ==
    /\ pc = "loop"
    /\ calls = <<[fn |-> "resize", width |-> 127, height |-> 127, depth |-> 127]>>
    /\ grid.width = 127 /\ grid.height = 127 /\ grid.depth = 127

\* C8: fallback on an unresolved index.  In a step of the chunk loop at
\* an XYZI chunk, every record read in full whose palette index has no
\* entry in the palette table is set with the colour 0xFFFFFFFF, which is
\* then in its cell (unless the cell is outside the grid or a later
\* record of the chunk sets it again); and the step raises nothing when
\* every declared record is there.
C8_Step ==
    LET h == Header(CurFile, pos)
        declared == uint32_read(CurFile, h.pos)
        first == Adv(CurFile, h.pos, 4)
        there == Min(declared, (Len(CurFile) - first) \div 4)
        rec(k) == Read(CurFile, first + 4 * (k - 1), 4)
    IN  (AtChunk /\ h.cid = <<88, 89, 90, 73>>)
        => /\ \A k \in 1..there :
                rec(k)[4] \notin DOMAIN palette
                => /\ Len(calls') >= Len(calls) + k
                   /\ calls'[Len(calls) + k]
                        = [fn |-> "set", x |-> rec(k)[1], y |-> rec(k)[3],
                           z |-> rec(k)[2], color |-> <<255, 255, 255, 255>>]
                   /\ ( /\ InBounds(grid', rec(k)[1], rec(k)[3], rec(k)[2])
                        /\ \A j \in (k + 1)..there :
                              SubSeq(rec(j), 1, 3) # SubSeq(rec(k), 1, 3) )
                      => Get(grid', rec(k)[1], rec(k)[3], rec(k)[2])
                            = <<255, 255, 255, 255>>
           /\ there = declared => (pc' = "loop" /\ outcome' = "none")
C8_UnresolvedIndex == [][C8_Step]_vars
C8_Witness ==
    /\ Ended("load", "a")
    /\ outcome = "ok"
    /\ palette = NoPalette
    /\ \E k \in DOMAIN calls :
          calls[k] = [fn |-> "set", x |-> 1, y |-> 1, z |-> 0,
                      color |-> <<255, 255, 255, 255>>]
    /\ Get(grid, 1, 1, 0) = <<255, 255, 255, 255>>

\* C9: bad magic.  A load of a file whose first four bytes are not
\* "VOX " ends at once with the format error: no chunk header has been
\* read (the cursor is within the 8 bytes of magic and version), and the
\* grid is as it was, with no resize and no set.
C9_Step ==
    ( /\ pc = "idle"
      /\ ops' = ops + 1
      /\ cur'.op = "load"
      /\ Read(disk[cur'.name], 0, 4) # <<86, 79, 88, 32>> )
    => /\ pc' = "idle"
       /\ outcome' = "format"
       /\ pos' <= 8
       /\ grid' = grid
       /\ calls' = <<>>
C9_BadMagic == [][C9_Step]_vars
C9_Witness ==
    /\ scenario.kind = "magic"
    /\ Ended("load", "a")
    /\ outcome = "format"
    /\ Len(disk["a"]) > 8

\* C10: save aborts before output on capacity failure.  A save that ends
\* with the capacity error has opened no file, and every file, the one of
\* its name included, has the bytes it had before.
C10_Step ==
    ( /\ pc = "idle"
      /\ ops' = ops + 1
      /\ cur'.op = "save"
      /\ outcome' = "capacity" )
    => disk' = disk /\ handle' = "none"
C10_AbortBeforeOutput == [][C10_Step]_vars
C10_Witness ==
    /\ Ended("save", "out")
    /\ outcome = "capacity"
    /\ disk["out"] = ExistingFile

\* C11: declared count matches emitted records.  In a file save wrote, the
\* number of 4-byte records after the XYZI count field is the value of
\* that field and the number of non-empty cells of the grid, and the XYZI
\* content length is 4 + 4 * (records written).
C11_CountMatchesRecords ==
    \A n \in SaveNames :
        (Ended("save", n) /\ outcome = "ok") =>
            /\ Read(disk[n], XyziAt, 4) = <<88, 89, 90, 73>>
            /\ (Len(disk[n]) - RecordsAt) % 4 = 0
            /\ SavedRecordCount(disk[n]) = uint32_read(disk[n], XyziAt + 12)
            /\ SavedRecordCount(disk[n]) = Cardinality(Cells(grid))
            /\ uint32_read(disk[n], XyziAt + 4) = 4 + 4 * SavedRecordCount(disk[n])

\* The end of the root chunk header, and the budget it declares (line 172).
RootEnd == MainAt + 12
RootBudget == Header(CurFile, MainAt).content_size + Header(CurFile, MainAt).child_size

\* The cursors from p on at which a chunk header of the file starts, each
\* chunk followed by its sibling: 12 bytes of header, the content and the
\* children.
RECURSIVE SiblingStarts(_, _)
SiblingStarts(f, p) ==
    IF p + 12 > Len(f) THEN {}
    ELSE {p} \cup SiblingStarts(f, p + 12 + Header(f, p).content_size
                                     + Header(f, p).child_size)

\* C12: chunk-walk bookkeeping.  At the top of every iteration of the
\* chunk loop the cursor is at the first byte of the header of a sibling
\* chunk and the budget left is the root's content length plus children
\* length less the bytes read since the root header; and an iteration
\* that raises nothing lowers the budget by exactly 16 + content length +
\* children length of the chunk it processed.
C12_Top ==
    AtChunk => /\ pos \in SiblingStarts(CurFile, RootEnd)
               /\ left = RootBudget - (pos - RootEnd)
C12_Step ==
    (AtChunk /\ pc' = "loop")
    => left' = left - (16 + Header(CurFile, pos).content_size
                          + Header(CurFile, pos).child_size)
C12_WalkBookkeeping == []C12_Top /\ [][C12_Step]_vars

\* C13: incomplete header is an error.  An iteration of the chunk loop
\* that starts with fewer than 12 bytes left in the file, so that the tag
\* and the two lengths cannot be read in full, ends the load with an
\* error; it does not carry on.
C13_Step ==
    (AtChunk /\ Len(CurFile) - pos < 12)
    => pc' = "idle" /\ outcome' \notin {"none", "ok"}
C13_IncompleteHeader == [][C13_Step]_vars

\* C14: load terminates.  The chunk loop is never at the top of an
\* iteration with the file read to its end and a negative budget: from
\* there every iteration reads an empty header and takes 16 more off the
\* budget (lines 174-177, 213, 215), so the budget is never 0 again and
\* the loop never stops.
C14_LoadTerminates ==
    ~(pc = "loop" /\ pos >= Len(CurFile) /\ left < 0)

\* C15: chunk order independence of colour resolution.  For a file with
\* SIZE, RGBA and XYZI chunks (a) and the same file with the RGBA and XYZI
\* chunks exchanged (b): a load that ended without error has set every
\* voxel record of palette index i with the colour of entry i of the
\* file's RGBA chunk, and the two loads leave the same grid.
C15_RecordColors ==
    LET sets == SelectSeq(calls, LAMBDA c : c.fn = "set")
    IN  /\ Len(sets) = Len(scenario.recs)
        /\ \A k \in DOMAIN sets :
              sets[k].color = FilePaletteEntry(scenario.recs[k][4])
C15_OrderIndependence ==
    scenario.kind = "order" =>
        /\ \A n \in {"a", "b"} :
              (Ended("load", n) /\ outcome = "ok") => C15_RecordColors
        /\ (result["a"].outcome = "ok" /\ result["b"].outcome = "ok")
              => result["a"].grid = result["b"].grid

====
